---- MODULE Spec2Model ----
(***************************************************************************)
(* Model of the switchbuffer engine (src/switchbuffer_impl.h, lines 1-304): *)
(* one producer, any number of consumers, a ring of Buffer objects owned    *)
(* through unique_ptr, a per-consumer sanctuary Buffer and a per-consumer   *)
(* promise.  Every public operation takes the single mutex, so each is one  *)
(* atomic action.  The producer and consumer threads are the ones of        *)
(* src/switchbuffer_test.cpp: the producer writes its running counter into  *)
(* the Buffer returned by Switch, a consumer keeps the reference its future *)
(* was resolved with.                                                       *)
(***************************************************************************)
EXTENDS Integers, Sequences, FiniteSets, TLC

\* ---- bounds of the model ----
MaxRing == 3        \* largest ringBufferSize drawn at construction
MaxConsumers == 2   \* number of distinct consumer handles (parent addresses)
MaxSwitch == 4      \* cap on the number of SwitchProducer calls

Parents == 1..MaxConsumers
BufferIds == 0..(MaxRing + MaxConsumers - 1)
NoBuffer == MaxRing + MaxConsumers

VARIABLES
  size,        \* ring.size(), the ringBufferSize given to the constructor
  ring,        \* ring[i]: the Buffer object owned by slot i
  content,     \* content[b]: the value stored in Buffer object b; 0 stands for the
               \* indeterminate value of a Buffer made by new Buffer and never written
  curr,        \* producer.curr (size = invalid)
  next,        \* producer.next (size = invalid)
  isClosed,    \* producer.isClosed
  consumers,   \* the vector of Consumer records, in registration order
  m_producer,  \* where the producer handle is: "master", "issued", "released"
  count,       \* the producer thread's counter i: number of Switch calls so far
  wrote,       \* the producer thread has written into the Buffer of its last Switch
  handle,      \* handle[p]: consumer handle p is "unborn", "alive" or "released"
  future,      \* future[p]: the std::future returned by parent p's latest Switch
  last,        \* last[p]: the value p's latest resolved future referred to when it
               \* was resolved (None: no future of p was resolved yet)
  regAt,       \* history: regAt[p] is the number of values finalized when p was
               \* registered
  overrun,     \* history: p was at some time more than size-1 finalized values behind
  skipped,     \* history: p has issued a request with skipToMostRecent = true
  thrown,      \* what the latest GetProducer call did: "none" before the first
               \* call, "returned", or "logic_error"
  master,      \* the SwitchBuffer object exists (it holds one reference to the core)
  maxGot,      \* history: the newest value p has been given so far
  prior,       \* history: state of the future p was given by the request before
               \* its latest one, if the latest request found it pending
  crashed,     \* the process was ended by a trap (division by zero in operator++)
  solo         \* a second core that is given the same producer calls and the calls
               \* of the first consumer handle only: its ring, Buffers, consumer
               \* record, latest future and latest result

vars == <<size, ring, content, curr, next, isClosed, consumers, m_producer,
          count, wrote, handle, future, last, regAt, overrun, skipped, thrown, master, crashed, maxGot, prior, solo>>

\* ---- RingIterator ----
\* (variant: a RingIterator starts at the first slot)
RingIteratorBegin(n) == 0

\* RingIterator(Ring *ring): m_pos(ring->size())
RingIterator(n) == n

\* operator bool: m_pos < m_ring->size()
IsValid(pos, n) == pos < n

\* (variant: incrementing the invalid cursor gives the first slot)
IncrFromBegin(pos, n) == IF pos < n THEN (pos + 1) % n ELSE 0

\* operator++: ++m_pos; m_pos %= m_ring->size()
Incr(pos, n) == (pos + 1) % n

\* std::next(it): a copy of it, incremented once
StdNext(pos, n) == Incr(pos, n)

\* operator*: assert(*this); (*m_ring)[m_pos]
Deref(r, pos) == r[pos]

\* ---- Consumer ----
\* (variant: a Consumer constructed with isEmpty false)
ConsumerNotEmpty(parent, n, b) ==
  [parent |-> parent, pos |-> RingIterator(n), isFull |-> FALSE, isEmpty |-> FALSE,
   sanctuary |-> b, promise |-> FALSE]

\* (variant: a Consumer constructed with isFull true)
ConsumerFull(parent, n, b) ==
  [parent |-> parent, pos |-> RingIterator(n), isFull |-> TRUE, isEmpty |-> TRUE,
   sanctuary |-> b, promise |-> FALSE]

\* (variant: a consumer is created with a promise in place)
ConsumerWithPromise(parent, n, b) ==
  [parent |-> parent, pos |-> RingIterator(n), isFull |-> FALSE, isEmpty |-> TRUE,
   sanctuary |-> b, promise |-> TRUE]

\* Consumer(parent, ring): pos invalid, isFull false, isEmpty true, sanctuary new Buffer
Consumer(parent, n, b) ==
  [parent |-> parent, pos |-> RingIterator(n), isFull |-> FALSE, isEmpty |-> TRUE,
   sanctuary |-> b, promise |-> FALSE]

\* Consumers::find(parent): index of the record of parent, 0 when absent
Find(cs, parent) ==
  IF \E i \in 1..Len(cs) : cs[i].parent = parent
    THEN CHOOSE i \in 1..Len(cs) : cs[i].parent = parent
    ELSE 0

\* the Buffer objects alive: those of the ring slots and of the sanctuaries
UsedBuffers ==
  {ring[i] : i \in DOMAIN ring} \cup {consumers[i].sanctuary : i \in 1..Len(consumers)}

\* new Buffer: an object distinct from every live one
NewBuffer == CHOOSE b \in BufferIds : b \notin UsedBuffers /\ \A c \in BufferIds : c < b => c \in UsedBuffers

None == 0 - 1

NoFuture == [st |-> "none", ref |-> NoBuffer]

\* ---- construction ----
\* SwitchBufferImpl(ringBufferSize): ring of ringBufferSize fresh Buffers, producer
\* cursors invalid, not closed; SwitchBuffer keeps the producer handle in m_producer
Construct(ringBufferSize) ==
  /\ size = ringBufferSize
  /\ ring = [i \in 0..(size - 1) |-> i]
  /\ content = [b \in BufferIds |-> 0]
  /\ curr = RingIterator(size)
  /\ next = RingIterator(size)
  /\ isClosed = FALSE
  /\ consumers = << >>
  /\ m_producer = "master"
  /\ count = 0
  /\ wrote = FALSE
  /\ handle = [p \in Parents |-> "unborn"]
  /\ future = [p \in Parents |-> NoFuture]
  /\ last = [p \in Parents |-> None]
  /\ regAt = [p \in Parents |-> 0]
  /\ overrun = [p \in Parents |-> FALSE]
  /\ skipped = [p \in Parents |-> FALSE]
  /\ thrown = "none"
  /\ master = TRUE
  /\ crashed = FALSE
  /\ prior = [p \in Parents |-> "none"]
  /\ maxGot = [p \in Parents |-> None]
  /\ solo = [ring |-> [i \in 0..(size - 1) |-> i], content |-> [b \in BufferIds |-> 0],
             cs |-> << >>, future |-> NoFuture, last |-> None]

\* the cores of the test program and of every use within the documented range
Init == \E ringBufferSize \in 2..MaxRing : Construct(ringBufferSize)

\* number of values finalized after c calls of Switch: every call but the first
\* finalizes the value written before it
FinalizedOf(c) == IF c = 0 THEN 0 ELSE c - 1

Finalized == FinalizedOf(count)

\* ---- SwitchBuffer::GetProducer ----
\* a call that finds m_producer empty throws std::logic_error and changes nothing
NeverNull(h) == FALSE

IsNull(h) == h # "master"

GetProducer ==
  /\ master
  /\ IF IsNull(m_producer) THEN UNCHANGED m_producer ELSE m_producer' = "issued"
  /\ UNCHANGED <<size, ring, content, curr, next, isClosed, consumers, count, wrote,
                 handle, future, last>>

\* ---- SwitchBuffer::GetConsumer / SwitchBufferConsumer ctor / CreateConsumer ----
\* handles are told apart by their address only, so they are numbered in the order
\* in which GetConsumer creates them
CreateConsumer(parent) ==
  /\ master
  /\ handle[parent] = "unborn"
  /\ \A q \in Parents : q < parent => handle[q] # "unborn"
  /\ handle' = [handle EXCEPT ![parent] = "alive"]
  /\ consumers' = Append(consumers, Consumer(parent, size, NewBuffer))
  /\ UNCHANGED <<size, ring, content, curr, next, isClosed, m_producer, count, wrote,
                 future, last>>

\* ---- CloseProducer (run by ~SwitchBufferProducer) ----
\* (variant: CloseProducer also clears isEmpty)
BreakAndWake(cs) == [i \in 1..Len(cs) |-> [cs[i] EXCEPT !.promise = FALSE, !.isEmpty = FALSE]]

\* (variant: CloseProducer leaves the promises in place)
KeepPromises(cs) == cs

\* consumer.promise.reset() for every consumer
BreakPromises(cs) == [i \in 1..Len(cs) |-> [cs[i] EXCEPT !.promise = FALSE]]

CloseProducer ==
  /\ m_producer = "issued"
  /\ m_producer' = "released"
  /\ isClosed' = TRUE
  /\ LET cs == BreakPromises(consumers)
         \* the parents whose promise was destroyed unfulfilled by this call
         broken == {consumers[i].parent :
                      i \in {j \in 1..Len(cs) : consumers[j].promise /\ ~cs[j].promise}}
     IN /\ consumers' = cs
        /\ future' = [p \in Parents |->
                        IF p \in broken THEN [st |-> "broken", ref |-> NoBuffer]
                        ELSE future[p]]
  /\ UNCHANGED <<size, ring, content, curr, next, count, wrote, handle, last>>

\* ---- CloseConsumer (run by ~SwitchBufferConsumer) ----
\* (variant: the first record is erased whichever was found)
EraseFirst(cs, i) == [j \in 1..(Len(cs) - 1) |-> cs[j + 1]]

\* (variant: the record is left in the vector)
EraseNothing(cs, i) == cs

\* consumers.erase(it)
Erase(cs, i) == [j \in 1..(Len(cs) - 1) |-> IF j < i THEN cs[j] ELSE cs[j + 1]]

CloseConsumer(parent) ==
  /\ handle[parent] = "alive"
  /\ LET i == Find(consumers, parent) IN
       /\ consumers' = Erase(consumers, i)
       /\ content' = [content EXCEPT ![consumers[i].sanctuary] = 0]
  /\ handle' = [handle EXCEPT ![parent] = "released"]
  /\ future' = [future EXCEPT ![parent] = NoFuture]
  /\ last' = [last EXCEPT ![parent] = None]
  /\ UNCHANGED <<size, ring, curr, next, isClosed, m_producer, count, wrote>>

\* ---- SwitchProducer ----
\* (variant: the first loop copies the slot's Buffer into the sanctuary)
SaveBuffersCopy(cs, r, nx, i) ==
  [cs |-> [k \in 1..Len(cs) |->
             IF nx = cs[k].pos
               THEN [cs[k] EXCEPT !.isFull = TRUE, !.sanctuary = Deref(r, nx)]
               ELSE cs[k]],
   ring |-> r]

\* first loop: for every consumer with producer.next == consumer.pos set isFull and
\* std::swap(*producer.next, consumer.sanctuary); consumers are visited in vector order
RECURSIVE SaveBuffers(_, _, _, _)
SaveBuffers(cs, r, nx, i) ==
  IF i > Len(cs) THEN [cs |-> cs, ring |-> r]
  ELSE IF nx = cs[i].pos
    THEN SaveBuffers([cs EXCEPT ![i].isFull = TRUE, ![i].sanctuary = Deref(r, nx)],
                     [r EXCEPT ![nx] = cs[i].sanctuary], nx, i + 1)
    ELSE SaveBuffers(cs, r, nx, i + 1)

\* (variant: the second loop leaves isEmpty of the other consumers as it is)
NotifyKeepEmpty(cs, cu) ==
  [i \in 1..Len(cs) |->
     IF cs[i].promise
       THEN [cs[i] EXCEPT !.pos = cu, !.promise = FALSE]
       ELSE cs[i]]

\* (variant: the second loop fulfils no promise)
NotifyNoPromise(cs, cu) ==
  [i \in 1..Len(cs) |-> IF cs[i].promise THEN cs[i] ELSE [cs[i] EXCEPT !.isEmpty = FALSE]]

\* second loop: a consumer with a promise gets pos = curr and its promise fulfilled
\* and reset, every other consumer gets isEmpty = false
NotifyConsumers(cs, cu) ==
  [i \in 1..Len(cs) |->
     IF cs[i].promise
       THEN [cs[i] EXCEPT !.pos = cu, !.promise = FALSE]
       ELSE [cs[i] EXCEPT !.isEmpty = FALSE]]

\* assert(consumer.isEmpty) in the second loop
NotifyAssert(cs) == \A i \in 1..Len(cs) : cs[i].promise => cs[i].isEmpty

SwitchProducer ==
  /\ m_producer = "issued"
  /\ count < MaxSwitch
  /\ count > 0 => wrote
  /\ LET cu == next
         nx == Incr(next, size)
         saved == SaveBuffers(consumers, ring, nx, 1)
         notified == IF IsValid(cu, size) THEN NotifyConsumers(saved.cs, cu) ELSE saved.cs
         \* the parents whose promise was fulfilled and reset by this call
         woken == {saved.cs[i].parent :
                     i \in {j \in 1..Len(saved.cs) : saved.cs[j].promise /\ ~notified[j].promise}}
         value(p) == Deref(saved.ring, notified[Find(notified, p)].pos)
     IN /\ IsValid(cu, size) => NotifyAssert(saved.cs)
        /\ curr' = cu
        /\ next' = nx
        /\ ring' = saved.ring
        /\ consumers' = notified
        /\ future' = [p \in Parents |->
                       IF p \in woken THEN [st |-> "ready", ref |-> value(p)] ELSE future[p]]
        /\ last' = [p \in Parents |-> IF p \in woken THEN content[value(p)] ELSE last[p]]
  /\ count' = count + 1
  /\ wrote' = FALSE
  /\ UNCHANGED <<size, content, isClosed, m_producer, handle>>

\* ---- the producer thread's write: buf = i++ into the Buffer returned by Switch ----
\* the thread writes once after every Switch; the value stored is its production
\* index (1 for the first write, the test's i + 1), so that 0 is left for a Buffer
\* that was never written
Produce ==
  /\ m_producer = "issued"
  /\ IsValid(next, size)
  /\ ~wrote
  /\ content' = [content EXCEPT ![Deref(ring, next)] = count]
  /\ wrote' = TRUE
  /\ UNCHANGED <<size, ring, curr, next, isClosed, consumers, m_producer, count,
                 handle, future, last>>

\* ---- SwitchConsumer ----
\* (variant: the request also gives up the sanctuary)
AdvanceDropSanctuary(c, skipToMostRecent, cu, nx, n) ==
  LET pos == IF skipToMostRecent THEN cu
             ELSE IF c.isFull THEN StdNext(nx, n)
             ELSE Incr(c.pos, n)
  IN [c EXCEPT !.isFull = FALSE, !.pos = pos, !.isEmpty = (pos = cu),
               !.sanctuary = NoBuffer]

\* (variant: isFull is tested before skipToMostRecent)
AdvanceFullFirst(c, skipToMostRecent, cu, nx, n) ==
  LET pos == IF c.isFull THEN StdNext(nx, n)
             ELSE IF skipToMostRecent THEN cu
             ELSE Incr(c.pos, n)
  IN [c EXCEPT !.isFull = FALSE, !.pos = pos, !.isEmpty = (pos = cu)]

\* (variant: a skipping request leaves isFull as it is)
AdvanceKeepFull(c, skipToMostRecent, cu, nx, n) ==
  LET pos == IF skipToMostRecent THEN cu
             ELSE IF c.isFull THEN StdNext(nx, n)
             ELSE Incr(c.pos, n)
  IN [c EXCEPT !.isFull = IF ~skipToMostRecent /\ c.isFull THEN FALSE ELSE c.isFull,
               !.pos = pos,
               !.isEmpty = (pos = cu)]

\* the branch taken when producer.curr is valid and the consumer is not empty
AdvanceConsumer(c, skipToMostRecent, cu, nx, n) ==
  LET pos == IF skipToMostRecent THEN cu
             ELSE IF c.isFull THEN StdNext(nx, n)
             ELSE Incr(c.pos, n)
  IN [c EXCEPT !.isFull = IF skipToMostRecent \/ c.isFull THEN FALSE ELSE c.isFull,
               !.pos = pos,
               !.isEmpty = (pos = cu)]

SwitchConsumer(parent, skipToMostRecent) ==
  /\ handle[parent] = "alive"
  /\ LET i == Find(consumers, parent)
         c == consumers[i]
     IN IF IsValid(curr, size) /\ ~c.isEmpty
          THEN LET d == AdvanceConsumer(c, skipToMostRecent, curr, next, size) IN
               /\ consumers' = [consumers EXCEPT ![i] = d]
               /\ future' = [future EXCEPT ![parent] =
                               [st |-> "ready", ref |-> Deref(ring, d.pos)]]
               /\ last' = [last EXCEPT ![parent] = content[Deref(ring, d.pos)]]
          ELSE IF isClosed
            THEN /\ future' = [future EXCEPT ![parent] =
                                 [st |-> "broken", ref |-> NoBuffer]]
                 /\ UNCHANGED <<consumers, last>>
            ELSE /\ consumers' = [consumers EXCEPT ![i].promise = TRUE]
                 /\ future' = [future EXCEPT ![parent] =
                                 [st |-> "pending", ref |-> NoBuffer]]
                 /\ UNCHANGED last
  /\ UNCHANGED <<size, ring, content, curr, next, isClosed, m_producer, count, wrote,
                 handle>>

\* ---- specifications ----
\* the history variables are not kept
Untracked == UNCHANGED <<regAt, overrun, skipped, thrown, master, crashed, maxGot, prior, solo>>

Next ==
  \/ GetProducer /\ Untracked
  \/ \E parent \in Parents : CreateConsumer(parent) /\ Untracked
  \/ CloseProducer /\ Untracked
  \/ \E parent \in Parents : CloseConsumer(parent) /\ Untracked
  \/ SwitchProducer /\ Untracked
  \/ Produce /\ Untracked
  \/ \E parent \in Parents, skipToMostRecent \in BOOLEAN :
       SwitchConsumer(parent, skipToMostRecent) /\ Untracked

Spec == Init /\ [][Next]_vars


\* ---- the producer thread keeps running ----
\* the thread of the test is never suspended for good: it writes, calls Switch
\* again or, once told to stop, releases its handle
ProducerStep == (SwitchProducer \/ Produce \/ CloseProducer) /\ Untracked

SpecFair == Init /\ [][Next]_vars /\ WF_vars(ProducerStep)

\* the history variables are kept: regAt at registration, overrun whenever the
\* number of finalized values a consumer has not received exceeds size-1, skipped
\* for the parents in skipping, those that issue a skipping request in the step
Tracked(skipping) ==
  /\ regAt' = [p \in Parents |->
                 IF handle'[p] # "alive" THEN 0
                 ELSE IF handle[p] = "alive" THEN regAt[p] ELSE Finalized]
  /\ overrun' = [p \in Parents |->
                   /\ handle'[p] = "alive"
                   /\ \/ overrun[p]
                      \/ FinalizedOf(count') - (IF last'[p] = None THEN regAt'[p] ELSE last'[p])
                           > size - 1]
  /\ skipped' = [p \in Parents |->
                   handle'[p] = "alive" /\ (skipped[p] \/ p \in skipping)]
  /\ UNCHANGED <<thrown, master, crashed, maxGot, prior, solo>>

NextHist ==
  \/ GetProducer /\ Tracked({})
  \/ \E parent \in Parents : CreateConsumer(parent) /\ Tracked({})
  \/ CloseProducer /\ Tracked({})
  \/ \E parent \in Parents : CloseConsumer(parent) /\ Tracked({})
  \/ SwitchProducer /\ Tracked({})
  \/ Produce /\ Tracked({})
  \/ \E parent \in Parents, skipToMostRecent \in BOOLEAN :
       SwitchConsumer(parent, skipToMostRecent)
         /\ Tracked(IF skipToMostRecent THEN {parent} ELSE {})

SpecHist == Init /\ [][NextHist]_vars

\* ---- the same calls on a core that has one consumer only ----
\* the consumer handle whose results are compared: the first one handed out
Observed == CHOOSE p \in Parents : \A q \in Parents : p <= q

\* new Buffer in the second core
SoloNewBuffer(so) ==
  CHOOSE b \in BufferIds :
    LET used == {so.ring[i] : i \in DOMAIN so.ring}
                  \cup {so.cs[i].sanctuary : i \in 1..Len(so.cs)}
    IN b \notin used /\ \A c \in BufferIds : c < b => c \in used

\* CreateConsumer, CloseConsumer, CloseProducer on the second core
SoloCreateConsumer(so) ==
  [so EXCEPT !.cs = Append(so.cs, Consumer(Observed, size, SoloNewBuffer(so)))]

SoloCloseConsumer(so) ==
  [so EXCEPT !.cs = Erase(so.cs, 1), !.content[so.cs[1].sanctuary] = 0,
             !.future = NoFuture, !.last = None]

SoloCloseProducer(so) ==
  [so EXCEPT !.cs = BreakPromises(so.cs),
             !.future = IF Len(so.cs) = 1 /\ so.cs[1].promise
                          THEN [st |-> "broken", ref |-> NoBuffer] ELSE @]

\* SwitchProducer and the producer thread's write on the second core; the
\* producer's cursors are those of the first core, which no consumer changes
SoloSwitchProducer(so) ==
  LET cu == next
      nx == Incr(next, size)
      saved == SaveBuffers(so.cs, so.ring, nx, 1)
      notified == IF IsValid(cu, size) THEN NotifyConsumers(saved.cs, cu) ELSE saved.cs
      woken == Len(saved.cs) = 1 /\ saved.cs[1].promise /\ ~notified[1].promise
  IN [so EXCEPT !.ring = saved.ring, !.cs = notified,
                !.future = IF woken
                             THEN [st |-> "ready", ref |-> Deref(saved.ring, notified[1].pos)]
                             ELSE @,
                !.last = IF woken THEN so.content[Deref(saved.ring, notified[1].pos)]
                         ELSE @]

SoloProduce(so) == [so EXCEPT !.content[Deref(so.ring, next)] = count]

\* SwitchConsumer of the observed handle on the second core
SoloSwitchConsumer(so, skipToMostRecent) ==
  LET c == so.cs[1] IN
    IF IsValid(curr, size) /\ ~c.isEmpty
      THEN LET d == AdvanceConsumer(c, skipToMostRecent, curr, next, size) IN
           [so EXCEPT !.cs[1] = d,
                      !.future = [st |-> "ready", ref |-> Deref(so.ring, d.pos)],
                      !.last = so.content[Deref(so.ring, d.pos)]]
      ELSE IF isClosed
        THEN [so EXCEPT !.future = [st |-> "broken", ref |-> NoBuffer]]
        ELSE [so EXCEPT !.cs[1].promise = TRUE,
                        !.future = [st |-> "pending", ref |-> NoBuffer]]

\* the second core follows the first: every producer step, and the steps of the
\* observed handle
Paired(so) == solo' = so /\ UNCHANGED <<regAt, overrun, skipped, thrown, master, crashed, maxGot, prior>>

NextPair ==
  \/ GetProducer /\ Paired(solo)
  \/ \E parent \in Parents :
       CreateConsumer(parent)
         /\ Paired(IF parent = Observed THEN SoloCreateConsumer(solo) ELSE solo)
  \/ CloseProducer /\ Paired(SoloCloseProducer(solo))
  \/ \E parent \in Parents :
       CloseConsumer(parent)
         /\ Paired(IF parent = Observed THEN SoloCloseConsumer(solo) ELSE solo)
  \/ SwitchProducer /\ Paired(SoloSwitchProducer(solo))
  \/ Produce /\ Paired(SoloProduce(solo))
  \/ \E parent \in Parents, skipToMostRecent \in BOOLEAN :
       SwitchConsumer(parent, skipToMostRecent)
         /\ Paired(IF parent = Observed THEN SoloSwitchConsumer(solo, skipToMostRecent)
                   ELSE solo)

SpecPair == Init /\ [][NextPair]_vars

\* ---- the calls with the outcome of GetProducer recorded ----
GetResult == IF IsNull(m_producer) THEN "logic_error" ELSE "returned"

Got(t) == thrown' = t /\ UNCHANGED <<regAt, overrun, skipped, master, crashed, maxGot, prior, solo>>

NextGet ==
  \/ GetProducer /\ Got(GetResult)
  \/ (\E parent \in Parents : CreateConsumer(parent)) /\ Got(thrown)
  \/ CloseProducer /\ Got(thrown)
  \/ (\E parent \in Parents : CloseConsumer(parent)) /\ Got(thrown)
  \/ SwitchProducer /\ Got(thrown)
  \/ Produce /\ Got(thrown)
  \/ (\E parent \in Parents, skipToMostRecent \in BOOLEAN :
        SwitchConsumer(parent, skipToMostRecent)) /\ Got(thrown)

SpecGet == Init /\ [][NextGet]_vars

\* ---- cores of any ringBufferSize ----
\* SwitchBufferImpl(size_t ringBufferSize) takes every size
InitAnySize == \E ringBufferSize \in 0..MaxRing : Construct(ringBufferSize)

\* SwitchProducer on a ring without slots: ++producer.next divides by ring->size()
\* = 0, which is undefined; the build traps (SIGFPE) and the process ends
SwitchProducerTrap ==
  /\ size = 0
  /\ m_producer = "issued"
  /\ ~crashed
  /\ crashed' = TRUE
  /\ UNCHANGED <<size, ring, content, curr, next, isClosed, consumers, m_producer,
                 count, wrote, handle, future, last, regAt, overrun, skipped, thrown,
                 master, maxGot, prior, solo>>

NextAnySize ==
  \/ ~crashed /\ GetProducer /\ Untracked
  \/ ~crashed /\ (\E parent \in Parents : CreateConsumer(parent)) /\ Untracked
  \/ ~crashed /\ CloseProducer /\ Untracked
  \/ ~crashed /\ (\E parent \in Parents : CloseConsumer(parent)) /\ Untracked
  \/ ~crashed /\ size > 0 /\ SwitchProducer /\ Untracked
  \/ SwitchProducerTrap
  \/ ~crashed /\ Produce /\ Untracked
  \/ ~crashed /\ (\E parent \in Parents, skipToMostRecent \in BOOLEAN :
                    SwitchConsumer(parent, skipToMostRecent)) /\ Untracked

SpecAnySize == InitAnySize /\ [][NextAnySize]_vars

\* ---- the calls with the release of the SwitchBuffer object ----
\* ~SwitchBuffer: the members are destroyed; a producer handle that was never
\* handed out is destroyed with it, which runs CloseProducer
DestroyMaster ==
  /\ master
  /\ master' = FALSE
  /\ IF m_producer = "master"
       THEN /\ m_producer' = "released"
            /\ isClosed' = TRUE
            /\ consumers' = BreakPromises(consumers)
            /\ future' = [p \in Parents |->
                            IF handle[p] = "alive" /\ consumers[Find(consumers, p)].promise
                              THEN [st |-> "broken", ref |-> NoBuffer]
                              ELSE future[p]]
       ELSE UNCHANGED <<m_producer, isClosed, consumers, future>>
  /\ UNCHANGED <<size, ring, content, curr, next, count, wrote, handle, last,
                 regAt, overrun, skipped, thrown, crashed, maxGot, prior, solo>>

Kept == UNCHANGED <<regAt, overrun, skipped, thrown, master, crashed, maxGot, prior, solo>>

NextLife ==
  \/ GetProducer /\ Kept
  \/ (\E parent \in Parents : CreateConsumer(parent)) /\ Kept
  \/ CloseProducer /\ Kept
  \/ (\E parent \in Parents : CloseConsumer(parent)) /\ Kept
  \/ SwitchProducer /\ Kept
  \/ Produce /\ Kept
  \/ (\E parent \in Parents, skipToMostRecent \in BOOLEAN :
        SwitchConsumer(parent, skipToMostRecent)) /\ Kept
  \/ DestroyMaster

SpecLife == Init /\ [][NextLife]_vars

\* std::shared_ptr use count of the core: the SwitchBuffer object, the producer
\* handle (inside the SwitchBuffer object or handed out) and every consumer handle
use_count ==
  (IF master THEN 1 ELSE 0)
    + (IF m_producer \in {"master", "issued"} THEN 1 ELSE 0)
    + Cardinality({p \in Parents : handle[p] = "alive"})

\* ---- the calls with the newest value given to each consumer recorded ----
Newest(p) ==
  IF handle'[p] # "alive" THEN None
  ELSE IF last'[p] > maxGot[p] THEN last'[p] ELSE maxGot[p]

Given ==
  /\ maxGot' = [p \in Parents |-> Newest(p)]
  /\ UNCHANGED <<regAt, overrun, skipped, thrown, master, crashed, prior, solo>>

NextGiven ==
  \/ GetProducer /\ Given
  \/ (\E parent \in Parents : CreateConsumer(parent)) /\ Given
  \/ CloseProducer /\ Given
  \/ (\E parent \in Parents : CloseConsumer(parent)) /\ Given
  \/ SwitchProducer /\ Given
  \/ Produce /\ Given
  \/ (\E parent \in Parents, skipToMostRecent \in BOOLEAN :
        SwitchConsumer(parent, skipToMostRecent)) /\ Given

SpecGiven == Init /\ [][NextGiven]_vars

\* ---- the calls with the future of the previous request recorded ----
\* (variant: a future stays pending when its promise is replaced)
ReplacedKept == "pending"

\* consumer.promise.reset(new std::promise): the promise the record held is
\* destroyed without a value, which breaks the future taken from it
Replaced == "broken"

\* the future of the request before the latest one, when it was still pending at
\* the latest request ("none" otherwise); while it is pending it shares its state
\* with the promise the record holds; a broken one is followed until the latest
\* future has been resolved, after which the record holds no promise of either
PriorOf(p, requesting) ==
  IF handle'[p] # "alive" THEN "none"
  ELSE IF p \in requesting
    THEN IF future[p].st = "pending"
           THEN IF future'[p].st = "pending" /\ consumers'[Find(consumers', p)].promise
                  THEN Replaced
                ELSE "pending"
           ELSE "none"
  ELSE IF /\ prior[p] = "pending"
             /\ consumers[Find(consumers, p)].promise
             /\ ~consumers'[Find(consumers', p)].promise
    THEN IF SwitchProducer THEN "ready" ELSE "broken"
  ELSE IF prior[p] = "broken" /\ future[p].st # "pending" THEN "none"
  ELSE prior[p]

Before(requesting) ==
  /\ prior' = [p \in Parents |-> PriorOf(p, requesting)]
  /\ UNCHANGED <<regAt, overrun, skipped, thrown, master, crashed, maxGot, solo>>

NextBefore ==
  \/ GetProducer /\ Before({})
  \/ (\E parent \in Parents : CreateConsumer(parent)) /\ Before({})
  \/ CloseProducer /\ Before({})
  \/ (\E parent \in Parents : CloseConsumer(parent)) /\ Before({})
  \/ SwitchProducer /\ Before({})
  \/ Produce /\ Before({})
  \/ \E parent \in Parents, skipToMostRecent \in BOOLEAN :
       SwitchConsumer(parent, skipToMostRecent) /\ Before({parent})

SpecBefore == Init /\ [][NextBefore]_vars

\* ---- observations shared by the properties ----
\* index i of parent p's record in the consumers vector
Rec(p) == consumers[Find(consumers, p)]

\* the step resolves a future of p with a Buffer: at once in SwitchConsumer, or by
\* the producer's notification of a pending promise
ResolvedNow(p) ==
  /\ future'[p].st = "ready"
  /\ \/ \E s \in BOOLEAN : SwitchConsumer(p, s)
     \/ future[p].st = "pending" /\ SwitchProducer

\* the step is a non-skip request of p that is resolved at once
ImmediateNoSkip(p) == future'[p].st = "ready" /\ SwitchConsumer(p, FALSE)

\* the value p received before (the ones finalized before its registration count
\* as received)
Base(p) == IF last[p] = None THEN regAt[p] ELSE last[p]

\* the Buffer the producer thread is writing: the one returned by its latest Switch
ProducerBuffer == Deref(ring, next)

\* ---- properties ----
\* C1: whenever the producer handle is alive (and the producer thread is at its
\* Switch call), SwitchProducer is enabled whatever the consumers' states are, and
\* after every Switch the returned slot producer.next is a valid ring slot
C1_ProducerNeverBlocks ==
  /\ (m_producer = "issued" /\ count < MaxSwitch /\ (count > 0 => wrote))
       => ENABLED SwitchProducer
  /\ count > 0 => IsValid(next, size) /\ ProducerBuffer \in BufferIds

\* the producer is about to Switch while one consumer is full and one is waiting
C1_Witness ==
  /\ m_producer = "issued" /\ count >= 3 /\ wrote
  /\ \E i, j \in 1..Len(consumers) : consumers[i].isFull /\ consumers[j].promise

\* C2: as long as a consumer that never skips was never more than size-1
\* finalized values behind, every result it gets is the value that directly
\* follows the one it got before (the first one: the first value finalized after
\* its registration)
C2_LosslessInOrder ==
  [][\A p \in Parents :
       (/\ handle[p] = "alive" /\ ~overrun[p] /\ ~skipped'[p]
        /\ ResolvedNow(p))
       => last'[p] = Base(p) + 1]_vars

\* C3: the Buffer the producer thread is writing is never the Buffer a consumer
\* holds from its latest, resolved request
C3_NoSharedBuffer ==
  \A p \in Parents :
    (/\ m_producer = "issued" /\ IsValid(next, size)
     /\ handle[p] = "alive" /\ future[p].st = "ready")
    => future[p].ref # ProducerBuffer

\* C4: with size 2 and a consumer registered before anything was finalized, once
\* the producer has written 1 and 2 (and possibly called Switch a third time), the
\* consumer's first request, if not skipping, is resolved at once with a Buffer
\* that holds 1
C4_FirstReadIsA ==
  [][\A p \in Parents :
       (/\ size = 2 /\ handle[p] = "alive" /\ regAt[p] = 0 /\ future[p].st = "none"
        /\ (count = 2 /\ wrote) \/ (count = 3 /\ ~wrote)
        /\ SwitchConsumer(p, FALSE))
       => /\ future'[p].st = "ready"
          /\ content'[future'[p].ref] = 1
          /\ last'[p] = 1]_vars

\* C5: the first result of a consumer that made no request before, got by a
\* non-skip request, is a finalized value (neither unwritten nor still being
\* written) in a Buffer other than the one the producer thread is writing
C5_FirstDrainIsFinalized ==
  [][\A p \in Parents :
       (/\ handle[p] = "alive" /\ future[p].st = "none"
        /\ ImmediateNoSkip(p))
       => /\ (m_producer = "issued" => future'[p].ref # ProducerBuffer)
          /\ last'[p] >= 1 /\ last'[p] <= Finalized]_vars

\* C6: every value a consumer that never skips receives is newer than the one it
\* received before
C6_Monotone ==
  [][\A p \in Parents :
       (/\ handle[p] = "alive" /\ ~skipped'[p] /\ last[p] # None
        /\ ResolvedNow(p))
       => last'[p] > last[p]]_vars

\* the consumer's cursor is on a ring slot and its record agrees with the value
\* it received last: caught up, or lapped by the producer, or last[p] lies
\* (curr - pos) mod size values behind the latest finalized one
Sane(p) ==
  /\ handle[p] = "alive" /\ last[p] # None /\ IsValid(curr, size)
  /\ LET c == Rec(p) IN
       /\ IsValid(c.pos, size)
       /\ IF c.isEmpty THEN c.pos = curr /\ last[p] = Finalized
          ELSE IF c.isFull THEN last[p] + size - 1 <= Finalized
          ELSE /\ c.pos # curr /\ c.pos # next
               /\ last[p] = Finalized - ((curr - c.pos) % size)

\* a skipping request of p that finds unread values: producer.curr is valid and p
\* is not empty
SkipWithBacklog(p) ==
  /\ handle[p] = "alive" /\ IsValid(curr, size) /\ ~Rec(p).isEmpty
  /\ SwitchConsumer(p, TRUE)

Pending(p) == handle[p] = "alive" /\ future[p].st = "pending"

\* C8: a consumer is registered caught-up (isEmpty, cursor invalid); while it is
\* still so and the producer is open its first request is deferred; a deferred
\* request stays unresolved, and the number of finalized values stays the same,
\* until a Switch that finalizes a value (or until a handle is released), and
\* that Switch resolves it with the value it finalizes, the one after those
\* finalized before
C8_DeferredUntilNext ==
  [][\A p \in Parents :
       /\ CreateConsumer(p) =>
            Rec(p)'.isEmpty /\ ~IsValid(Rec(p)'.pos, size) /\ future'[p].st = "none"
       /\ (/\ handle[p] = "alive" /\ future[p].st = "none" /\ Rec(p).isEmpty /\ ~isClosed
           /\ \E s \in BOOLEAN : SwitchConsumer(p, s))
          => Pending(p)' /\ Rec(p)'.promise
       /\ (Pending(p) /\ ~Pending(p)')
          => (SwitchProducer /\ IsValid(next, size)) \/ CloseProducer \/ CloseConsumer(p)
       /\ (Pending(p) /\ Pending(p)') => Finalized' = Finalized
       /\ (Pending(p) /\ SwitchProducer /\ IsValid(next, size))
          => /\ future'[p] = [st |-> "ready", ref |-> Deref(ring', curr')]
             /\ last'[p] = Finalized + 1 /\ Finalized' = Finalized + 1
             /\ content'[future'[p].ref] = Finalized + 1]_vars

\* the first request of a consumer registered after at least one value was
\* finalized is deferred, and the next value is written
C8_Witness ==
  \E p \in Parents :
    /\ Pending(p) /\ last[p] = None /\ Rec(p).promise /\ ~IsValid(Rec(p).pos, size)
    /\ Finalized >= 1 /\ wrote /\ m_producer = "issued"

\* C9: every value a consumer receives was finalized after its registration
C9_OnlyFuture ==
  \A p \in Parents : (handle[p] = "alive" /\ last[p] # None) => last[p] > regAt[p]

\* C10: once the producer is closed, a request of an empty consumer is broken, and
\* a non-skip request of a consumer that never skipped and is not empty is
\* resolved at once with a finalized value that was finalized after its
\* registration and is newer than the one it got before
C10_DrainAfterClose ==
  [][\A p \in Parents :
       (/\ handle[p] = "alive" /\ isClosed /\ ~skipped'[p]
        /\ SwitchConsumer(p, FALSE))
       => IF Rec(p).isEmpty
            THEN future'[p].st = "broken"
            ELSE /\ future'[p].st = "ready"
                 /\ last'[p] > Base(p) /\ last'[p] <= Finalized]_vars

\* C11: CloseProducer sets isClosed and leaves no consumer with a promise; every
\* future that was pending is broken by it and every other future is left as it
\* was; isClosed is never cleared; and while isClosed holds no consumer has a
\* promise, whatever is requested afterwards
C11_CloseBreaksPending ==
  [][/\ CloseProducer =>
          /\ isClosed'
          /\ \A i \in 1..Len(consumers') : ~consumers'[i].promise
          /\ \A p \in Parents :
               future'[p] = IF future[p].st = "pending"
                              THEN [st |-> "broken", ref |-> NoBuffer]
                              ELSE future[p]
     /\ isClosed => isClosed'
     /\ isClosed' =>
          /\ \A i \in 1..Len(consumers') : ~consumers'[i].promise
          /\ \A p \in Parents : future'[p].st # "pending"]_vars

\* the producer was closed while one consumer was waiting and another held a
\* result: the first one's future is broken, the other's is still there
C11_Witness ==
  /\ isClosed /\ m_producer = "released"
  /\ \E p, q \in Parents :
       /\ handle[p] = "alive" /\ future[p].st = "broken"
       /\ Rec(p).isEmpty /\ ~Rec(p).promise
       /\ handle[q] = "alive" /\ future[q].st = "ready"

\* C12: once the producer handle is taken and its thread keeps running, no
\* future stays pending for ever (again and again it is not pending); and a
\* future stops being pending only by SwitchProducer, by CloseProducer or by the
\* release of its own consumer handle, never by a step of another consumer
C12_NoEndlessWait ==
  /\ \A p \in Parents : []<>(m_producer = "master" \/ ~Pending(p))
  /\ [][\A p \in Parents :
          (Pending(p) /\ ~Pending(p)')
          => /\ SwitchProducer \/ CloseProducer \/ CloseConsumer(p)
             /\ \A q \in Parents \ {p} :
                  ~CloseConsumer(q) /\ \A s \in BOOLEAN : ~SwitchConsumer(q, s)]_vars

\* a consumer waits while the producer has used up its calls of Switch and
\* another consumer is registered
C12_Witness ==
  \E p, q \in Parents :
    /\ p # q /\ Pending(p) /\ handle[q] = "alive" /\ future[q].st = "ready"
    /\ m_producer = "issued" /\ count >= 2

\* C13: the producer's first Switch makes next a valid slot and leaves curr
\* invalid, fulfils no promise and changes no consumer record, future or ring
\* slot; a future pending then is fulfilled by the second Switch, with the Buffer
\* at the new curr, which holds the value written after the first Switch
C13_FirstSwitchSilent ==
  [][/\ (SwitchProducer /\ count = 0) =>
          /\ IsValid(next', size) /\ ~IsValid(curr', size)
          /\ UNCHANGED <<consumers, future, last, ring, content>>
     /\ (SwitchProducer /\ count = 1) =>
          \A p \in Parents :
            Pending(p) =>
              /\ future'[p] = [st |-> "ready", ref |-> Deref(ring', curr')]
              /\ last'[p] = 1 /\ content'[future'[p].ref] = 1
              /\ ~Rec(p)'.promise /\ Rec(p)'.pos = curr']_vars

\* a consumer that asked before anything was produced is still waiting after
\* the first Switch and the first write
C13_Witness ==
  /\ count = 1 /\ wrote /\ ~IsValid(curr, size) /\ IsValid(next, size)
  /\ \E p \in Parents : Pending(p) /\ Rec(p).promise /\ ~IsValid(Rec(p).pos, size)

\* C14: the observed consumer gets the same results (at once, pending or broken,
\* and the same value) as on a core that is given the same producer calls and
\* the observed consumer's calls only, whatever the other consumers do
C14_NoInterference ==
  handle[Observed] = "alive" =>
    /\ future[Observed].st = solo.future.st
    /\ last[Observed] = solo.last


\* C15: one producer handle per core: GetProducer hands out the handle when the
\* core still holds it; every later call, also after the handle was released and
\* the producer closed, throws logic_error and leaves ring, cursors, closed flag
\* and all consumer state as they were; the handle never returns to the core
C15_OneProducerHandle ==
  [][/\ GetProducer =>
          IF m_producer = "master"
            THEN m_producer' = "issued" /\ thrown' = "returned"
            ELSE /\ thrown' = "logic_error"
                 /\ UNCHANGED <<size, ring, content, curr, next, isClosed, consumers,
                                m_producer, count, wrote, handle, future, last>>
     /\ m_producer # "master" => m_producer' = m_producer \/ CloseProducer
     /\ m_producer' = "issued" /\ m_producer # "issued" =>
          m_producer = "master" /\ thrown' = "returned"]_vars

C15_Witness ==
  /\ thrown = "logic_error" /\ m_producer = "released" /\ isClosed
  /\ IsValid(curr, size)
  /\ \E p \in Parents : handle[p] = "alive" /\ future[p].st = "ready"


\* C16: a core of capacity 0 or 1 is never created: whenever a producer or
\* consumer handle has been issued or an operation has been performed, the ring
\* has at least 2 slots
C16_CapacityChecked ==
  (m_producer # "master" \/ (\E p \in Parents : handle[p] # "unborn") \/ crashed)
    => size >= 2


\* C17: a consumer record holds a promise exactly while the deferred result of its
\* latest request is unresolved (one notifier per consumer); a resolved or broken
\* result stays as it is until the consumer itself requests again or unregisters:
\* it is not resolved a second time by a later producer Switch, not broken after
\* it was resolved and not resolved after it was broken; a result becomes
\* resolved by a producer Switch only from pending
C17_SingleResolution ==
  [][\A p \in Parents :
       /\ handle'[p] = "alive" => (Rec(p)'.promise <=> future'[p].st = "pending")
       /\ (future[p].st \in {"ready", "broken"} /\ future'[p] # future[p])
            => (CloseConsumer(p) \/ \E s \in BOOLEAN : SwitchConsumer(p, s))
       /\ (future[p].st \in {"ready", "broken"} /\ last'[p] # last[p])
            => (CloseConsumer(p) \/ \E s \in BOOLEAN : SwitchConsumer(p, s))
       /\ (SwitchProducer /\ future'[p] # future[p])
            => future[p].st = "pending" /\ future'[p].st = "ready"
       /\ (CloseProducer /\ future'[p] # future[p])
            => future[p].st = "pending" /\ future'[p].st = "broken"]_vars

C17_Witness ==
  /\ count >= 3 /\ ~isClosed
  /\ \E p, q \in Parents :
       /\ p # q /\ handle[p] = "alive"
       /\ future[p].st = "ready" /\ last[p] = 1 /\ Rec(p).pos # curr /\ ~Rec(p).promise
       /\ Pending(q) /\ last[q] = 2 /\ Rec(q).promise


\* C18: for a registered consumer holding a resolved result, isFull holds exactly
\* when the Buffer it was given has been moved out of the ring into its
\* sanctuary; otherwise the Buffer is the one in the slot its pos refers to and
\* isFull is false; a consumer that was given nothing yet has isFull false
C18_FullIffEvacuated ==
  \A p \in Parents :
    handle[p] = "alive" =>
      /\ future[p].st = "ready" =>
           /\ Rec(p).isFull <=> (future[p].ref = Rec(p).sanctuary)
           /\ ~Rec(p).isFull <=> (future[p].ref = Deref(ring, Rec(p).pos))
      /\ ~IsValid(Rec(p).pos, size) => ~Rec(p).isFull


\* C19: for every registered consumer isEmpty holds exactly when its pos equals
\* the producer's curr
C19_EmptyIffAtCurr ==
  \A p \in Parents :
    handle[p] = "alive" => (Rec(p).isEmpty <=> (Rec(p).pos = curr))


\* C20: the ring slots and the sanctuaries of the registered consumers hold
\* pairwise distinct Buffers, size plus the number of registered consumers of
\* them; a producer Switch leaves that set of Buffers as it is and changes a slot
\* only by exchanging its Buffer with the sanctuary of a consumer
C20_BufferConservation ==
  /\ [](/\ Cardinality(UsedBuffers) = size + Len(consumers)
        /\ \A i, j \in 0..(size - 1) : ring[i] = ring[j] => i = j
        /\ \A i, j \in 1..Len(consumers) :
             consumers[i].sanctuary = consumers[j].sanctuary => i = j
        /\ \A i \in 0..(size - 1), j \in 1..Len(consumers) :
             ring[i] # consumers[j].sanctuary)
  /\ [][SwitchProducer =>
          /\ UsedBuffers' = UsedBuffers
          /\ \A i \in 0..(size - 1) :
               ring'[i] # ring[i] =>
                 /\ i = next'
                 /\ \E j \in 1..Len(consumers) :
                      /\ consumers[j].sanctuary = ring'[i]
                      /\ consumers'[j].sanctuary # consumers[j].sanctuary
                 /\ \E j \in 1..Len(consumers) : consumers'[j].sanctuary = ring[i]
          /\ \A j \in 1..Len(consumers) :
               consumers'[j].sanctuary # consumers[j].sanctuary =>
                 /\ consumers[j].pos = next'
                 /\ consumers[j].sanctuary \in {ring'[i] : i \in 0..(size - 1)}
                      \cup {consumers'[k].sanctuary : k \in 1..Len(consumers)}]_vars

C20_Witness ==
  /\ count >= 3
  /\ \E i \in 0..(size - 1) : ring[i] >= size
  /\ \E j \in 1..Len(consumers) : consumers[j].sanctuary < size /\ consumers[j].isFull
  /\ Len(consumers) = MaxConsumers


\* C21: the consumer records are those of the consumer handles that exist, so
\* when the last owner of the core (SwitchBuffer object, producer handle,
\* consumer handles, in whatever order they go) is released the consumer set is
\* empty and ~SwitchBufferImpl's assertion holds; nothing can be called on the
\* core after that
C21_CoreOutlivesHandles ==
  /\ {consumers[i].parent : i \in 1..Len(consumers)} = {p \in Parents : handle[p] = "alive"}
  /\ Len(consumers) = Cardinality({p \in Parents : handle[p] = "alive"})
  /\ use_count = 0 => consumers = << >> /\ ~ENABLED NextLife

C21_Witness ==
  /\ use_count = 0
  /\ count >= 2
  /\ \A p \in Parents : handle[p] = "released"


\* C22: a consumer with isFull set has its pos at the producer's next (N-1 slots
\* behind curr), also after further producer Switches
C22_FullAtNext ==
  \A i \in 1..Len(consumers) : consumers[i].isFull => consumers[i].pos = next


\* C23: a non-skip request of a consumer with isFull that is resolved at once
\* resumes at pos = next + 1; the value it gets is the oldest finalized value
\* held in a ring slot and is newer than the value the consumer got before
C23_ResumeAfterOverwrite ==
  [][\A p \in Parents :
       (/\ handle[p] = "alive" /\ Rec(p).isFull
        /\ SwitchConsumer(p, FALSE) /\ future'[p].st = "ready")
         => /\ Rec(p)'.pos = Incr(next, size)
            /\ \A i \in 0..(size - 1) :
                 (i # next /\ content[ring[i]] # 0) => last'[p] <= content[ring[i]]
            /\ last'[p] >= 1 /\ last'[p] <= Finalized
            /\ last'[p] > maxGot[p]]_vars


\* C24: a producer Switch that leaves curr valid resolves every consumer that
\* holds a promise with the Buffer at the new curr, clears the promise and sets
\* pos to curr, isEmpty staying true; every other consumer gets isEmpty false
\* and keeps its pos; all consumers resolved by the call get the value the call
\* finalizes
C24_NotificationStep ==
  [][(SwitchProducer /\ IsValid(curr', size)) =>
       /\ Len(consumers') = Len(consumers)
       /\ \A i \in 1..Len(consumers) :
            LET c == consumers[i]
                d == consumers'[i]
            IN /\ d.parent = c.parent
               /\ ~d.promise
               /\ IF c.promise
                    THEN /\ c.isEmpty /\ d.isEmpty
                         /\ d.pos = curr'
                         /\ future'[c.parent] = [st |-> "ready", ref |-> Deref(ring', curr')]
                         /\ last'[c.parent] = Finalized'
                         /\ content'[Deref(ring', curr')] = Finalized'
                    ELSE /\ ~d.isEmpty
                         /\ d.pos = c.pos
                         /\ future'[c.parent] = future[c.parent]
                         /\ last'[c.parent] = last[c.parent]]_vars

C24_Witness ==
  /\ count >= 3 /\ ~wrote /\ IsValid(curr, size) /\ m_producer = "issued"
  /\ \E p, q \in Parents :
       /\ p # q /\ handle[p] = "alive" /\ handle[q] = "alive"
       /\ future[p].st = "ready" /\ last[p] = Finalized
       /\ Rec(p).pos = curr /\ Rec(p).isEmpty /\ ~Rec(p).promise
       /\ ~Rec(q).isEmpty /\ Rec(q).pos # curr /\ future[q].st = "ready" /\ last[q] < Finalized


\* C25: a request of a consumer with isEmpty false is resolved at once:
\* skipToMostRecent puts pos on curr, otherwise isFull puts it on next + 1,
\* otherwise pos advances by one modulo the ring size; afterwards isFull is
\* false, isEmpty tells whether pos is curr, the result is the Buffer at the new
\* pos, and the producer's curr, next and closed flag are as before
C25_RequestBranches ==
  [][\A p \in Parents, s \in BOOLEAN :
       (handle[p] = "alive" /\ ~Rec(p).isEmpty /\ SwitchConsumer(p, s)) =>
         LET c == Rec(p)
             d == Rec(p)'
             pos == IF s THEN curr
                    ELSE IF c.isFull THEN (next + 1) % size
                    ELSE (c.pos + 1) % size
         IN /\ d.pos = pos
            /\ ~d.isFull
            /\ d.isEmpty <=> (pos = curr)
            /\ d.promise = FALSE /\ d.sanctuary = c.sanctuary
            /\ future'[p] = [st |-> "ready", ref |-> ring[pos]]
            /\ last'[p] = content[ring[pos]]
            /\ UNCHANGED <<curr, next, isClosed>>]_vars

C25_Witness ==
  /\ size = 3
  /\ \E p \in Parents :
       /\ handle[p] = "alive" /\ future[p].st = "ready"
       /\ Rec(p).sanctuary < size /\ ~Rec(p).isFull
       /\ Rec(p).pos = Incr(next, size) /\ ~Rec(p).isEmpty
       /\ future[p].ref = ring[Rec(p).pos]


\* C26: a request issued while the consumer's previous request is still pending
\* is deferred too and replaces the promise: the earlier future becomes broken
\* and stays so (it is never resolved), the consumer holds one promise, that of
\* its latest future, and the next producer Switch that leaves curr valid
\* resolves the latest future only
C26_SecondDeferredReplaces ==
  /\ [](\A p \in Parents : prior[p] # "pending")
  /\ [][\A p \in Parents :
          /\ (Pending(p) /\ \E s \in BOOLEAN : SwitchConsumer(p, s))
               => /\ prior'[p] = "broken" \/ prior'[p] = prior[p]
                  /\ Pending(p)' /\ Rec(p)'.promise
          /\ (prior[p] = "broken" /\ Pending(p) /\ prior'[p] # "broken")
               => CloseConsumer(p)
          /\ prior'[p] = "ready" => prior[p] = "ready"
          /\ (prior[p] = "broken" /\ Pending(p) /\ SwitchProducer /\ IsValid(curr', size))
               => /\ future'[p].st = "ready" /\ last'[p] = Finalized'
                  /\ prior'[p] = "broken"]_vars

C26_Witness ==
  \E p \in Parents :
    /\ handle[p] = "alive" /\ prior[p] = "broken"
    /\ future[p].st = "ready" /\ last[p] = Finalized /\ count >= 2
    /\ ~isClosed /\ ~Rec(p).promise


\* the state of a consumer record: Initial while pos is invalid, then Draining
\* while isEmpty is false, else Caught-up or, with the producer closed, Closed
ConsumerState(c, closed) ==
  IF ~IsValid(c.pos, size) THEN "Initial"
  ELSE IF ~c.isEmpty THEN "Draining"
  ELSE IF closed THEN "Closed"
  ELSE "CaughtUp"

\* the step leaves the state of p's record as it is or moves it along an edge
Moves(p, edges) ==
  (handle[p] = "alive" /\ handle'[p] = "alive") =>
    LET a == ConsumerState(Rec(p), isClosed)
        b == ConsumerState(Rec(p)', isClosed')
    IN a = b \/ <<a, b>> \in edges

\* with the producer closed and isEmpty true the record stays as it is, the
\* producer stays closed and a request returns a broken future
Terminal(p) ==
  (handle[p] = "alive" /\ isClosed /\ Rec(p).isEmpty) =>
    /\ isClosed'
    /\ handle'[p] = "alive" =>
         /\ Rec(p)'.pos = Rec(p).pos
         /\ Rec(p)'.isFull = Rec(p).isFull
         /\ Rec(p)'.isEmpty
         /\ ~Rec(p)'.promise
         /\ future'[p] # future[p] => future'[p].st = "broken"
    /\ \A s \in BOOLEAN : SwitchConsumer(p, s) => future'[p].st = "broken"

StatedEdges ==
  {<<"Initial", "Draining">>, <<"Draining", "CaughtUp">>, <<"CaughtUp", "Draining">>,
   <<"CaughtUp", "Closed">>}

\* C27 (as stated): a consumer record moves only along Initial -> Draining,
\* Draining <-> Caught-up, Caught-up -> Closed, and Closed is terminal
C27_StatedEdgesOnly ==
  [][\A p \in Parents : Moves(p, StatedEdges) /\ Terminal(p)]_vars

\* C27: a consumer record moves only along Initial -> Draining, Draining <->
\* Caught-up, Caught-up -> Closed and the direct moves Initial -> Caught-up,
\* Initial -> Closed and Draining -> Closed; isEmpty is cleared by a producer
\* Switch only; once the producer is closed and isEmpty is true every request
\* returns broken and pos, isFull and isEmpty stay as they are
C27_StateMachine ==
  [][\A p \in Parents :
       /\ Moves(p, StatedEdges \cup {<<"Initial", "CaughtUp">>, <<"Initial", "Closed">>,
                                     <<"Draining", "Closed">>})
       /\ Terminal(p)
       /\ (handle[p] = "alive" /\ handle'[p] = "alive"
             /\ Rec(p).isEmpty /\ ~Rec(p)'.isEmpty) => SwitchProducer]_vars

C27_Witness ==
  /\ isClosed /\ count >= 2
  /\ \E p \in Parents :
       /\ handle[p] = "alive" /\ IsValid(Rec(p).pos, size)
       /\ Rec(p).isEmpty /\ ~Rec(p).isFull
       /\ future[p].st = "broken" /\ last[p] = Finalized


\* C28: CloseConsumer removes the record of that consumer and nothing else: its
\* promise goes unresolved, the ring slots and their Buffers, curr, next, the
\* closed flag and the records and futures of the other consumers stay as they
\* are; a later producer Switch neither resolves anything for the removed
\* consumer nor exchanges a Buffer with its sanctuary
C28_UnregisterFrame ==
  [][\A p \in Parents :
       /\ CloseConsumer(p) =>
            /\ consumers' = SelectSeq(consumers, LAMBDA c : c.parent # p)
            /\ Len(consumers') = Len(consumers) - 1
            /\ future'[p].st = "none" /\ handle'[p] = "released"
            /\ UNCHANGED <<size, ring, curr, next, isClosed, m_producer, count, wrote>>
            /\ \A i \in 0..(size - 1) : content'[ring[i]] = content[ring[i]]
            /\ \A q \in Parents \ {p} :
                 /\ future'[q] = future[q] /\ last'[q] = last[q]
                 /\ handle'[q] = handle[q]
                 /\ handle[q] = "alive" => content'[Rec(q).sanctuary] = content[Rec(q).sanctuary]
       /\ handle[p] = "released" =>
            /\ handle'[p] = "released"
            /\ future'[p].st = "none" /\ last'[p] = None
            /\ \A i \in 1..Len(consumers') : consumers'[i].parent # p
            /\ SwitchProducer =>
                 \A i \in 0..(size - 1) :
                   ring'[i] # ring[i] =>
                     \E j \in 1..Len(consumers) :
                       /\ consumers[j].parent # p
                       /\ consumers[j].sanctuary = ring'[i]]_vars

C28_Witness ==
  /\ count >= 3 /\ ~isClosed
  /\ \E p, q \in Parents :
       /\ handle[p] = "released" /\ handle[q] = "alive"
       /\ Rec(q).isFull /\ future[q].st = "ready"
       /\ future[p].st = "none"


\* C29: a request of a consumer changes only the pos, isFull, isEmpty and
\* promise of its own record (and its own future), in every branch and for
\* both values of skipToMostRecent: ring slots and Buffers, every sanctuary,
\* curr, next, the closed flag, the set of registered consumers and the records
\* and futures of the others stay as they are
C29_RequestFrame ==
  [][\A p \in Parents, s \in BOOLEAN :
       SwitchConsumer(p, s) =>
         /\ UNCHANGED <<size, ring, content, curr, next, isClosed, m_producer, count,
                        wrote, handle>>
         /\ Len(consumers') = Len(consumers)
         /\ \A i \in 1..Len(consumers) :
              /\ consumers'[i].parent = consumers[i].parent
              /\ consumers'[i].sanctuary = consumers[i].sanctuary
              /\ consumers[i].parent # p => consumers'[i] = consumers[i]
         /\ \A q \in Parents \ {p} : future'[q] = future[q] /\ last'[q] = last[q]]_vars

C29_Witness ==
  /\ count >= 2 /\ ~isClosed
  /\ \E p, q \in Parents :
       /\ p # q /\ Pending(p) /\ Rec(p).promise /\ IsValid(Rec(p).pos, size)
       /\ handle[q] = "alive" /\ future[q].st = "ready"
       /\ ~Rec(q).isEmpty /\ IsValid(Rec(q).pos, size) /\ ~Rec(q).promise


\* C30: a consumer can be registered in every state (before the first
\* production, between productions, after close); the call appends one record
\* with pos invalid, isEmpty true, isFull false, no promise and a Buffer of its
\* own, and leaves ring, Buffers, curr, next, closed flag and the records and
\* futures of the consumers already registered as they are
C30_RegisterFrame ==
  /\ []((\E p \in Parents : handle[p] = "unborn")
          => ENABLED (\E parent \in Parents : CreateConsumer(parent)))
  /\ [][\A p \in Parents :
          CreateConsumer(p) =>
            /\ Len(consumers') = Len(consumers) + 1
            /\ \A i \in 1..Len(consumers) : consumers'[i] = consumers[i]
            /\ LET c == consumers'[Len(consumers')]
               IN /\ c.parent = p
                  /\ ~IsValid(c.pos, size) /\ c.isEmpty /\ ~c.isFull /\ ~c.promise
                  /\ c.sanctuary \notin UsedBuffers
            /\ UNCHANGED <<size, ring, content, curr, next, isClosed, m_producer, count,
                           wrote, future, last>>
            /\ \A q \in Parents \ {p} : handle'[q] = handle[q]]_vars

C30_Witness ==
  /\ isClosed /\ count >= 2
  /\ \E p, q \in Parents :
       /\ p # q /\ handle[p] = "alive" /\ handle[q] = "alive"
       /\ Find(consumers, q) < Find(consumers, p)
       /\ ~IsValid(Rec(p).pos, size) /\ Rec(p).isEmpty /\ ~Rec(p).isFull
       /\ ~Rec(p).promise /\ future[p].st = "none"
       /\ future[q].st = "ready" /\ IsValid(Rec(q).pos, size)


\* the producer handle was released before any value was finalized: before the
\* first Switch or after the first Switch only
ClosedUnfinalized == isClosed /\ count <= 1

\* C31: when the producer handle is released before anything was finalized, no
\* request stays pending (the ones that were pending are broken), every request
\* issued from then on returns a broken result at once and leaves the consumer's
\* record as it was, and no consumer has been or is ever given a value
C31_ReleasedBeforeFinalized ==
  /\ [](ClosedUnfinalized
          => \A p \in Parents :
               /\ future[p].st \in {"none", "broken"}
               /\ last[p] = None
               /\ handle[p] = "alive" => ~Rec(p).promise)
  /\ [][/\ ClosedUnfinalized => ClosedUnfinalized'
        /\ (~isClosed /\ ClosedUnfinalized')
             => \A p \in Parents :
                  IF Pending(p) THEN future'[p].st = "broken"
                  ELSE future'[p] = future[p]
        /\ \A p \in Parents, s \in BOOLEAN :
             (ClosedUnfinalized /\ SwitchConsumer(p, s))
               => /\ future'[p] = [st |-> "broken", ref |-> NoBuffer]
                  /\ consumers' = consumers
                  /\ last'[p] = None]_vars

\* the producer handle was released after its first Switch only; one consumer's
\* future is broken, and a consumer registered after the release is there too
C31_Witness ==
  /\ ClosedUnfinalized /\ count = 1
  /\ \E p, q \in Parents :
       /\ p # q /\ handle[p] = "alive" /\ handle[q] = "alive"
       /\ future[p].st = "broken" /\ future[q].st = "broken"


\* C32: whenever a request of a consumer is resolved with a Buffer (at once, or by
\* a producer Switch), the consumer's pos is a valid ring index other than the
\* producer's next, and the slot at pos holds a finalized value: one that was
\* written and whose production was completed by a later Switch
C32_DeliveredIsFinalized ==
  [][\A p \in Parents :
       ResolvedNow(p)
       => LET c == consumers'[Find(consumers', p)] IN
            /\ IsValid(c.pos, size)
            /\ c.pos # next'
            /\ future'[p].ref = Deref(ring', c.pos)
            /\ content'[Deref(ring', c.pos)] >= 1
            /\ content'[Deref(ring', c.pos)] <= FinalizedOf(count')]_vars


\* C33: after the first producer Switch next is a valid index and curr is still
\* invalid; after every later Switch curr is valid and next = (curr + 1) mod size;
\* a cursor that is valid never becomes invalid again; the Buffer a Switch returns,
\* the one the producer thread then writes, is the one at the new next; after
\* CloseProducer curr and next never change
C33_ProducerCursors ==
  /\ [](/\ count = 0 => ~IsValid(curr, size) /\ ~IsValid(next, size)
        /\ count = 1 => ~IsValid(curr, size) /\ IsValid(next, size)
        /\ count >= 2 => IsValid(curr, size) /\ next = (curr + 1) % size
        /\ (m_producer = "issued" /\ count >= 1 /\ ~wrote) => ENABLED Produce)
  /\ [][/\ IsValid(curr, size) => IsValid(curr', size)
        /\ IsValid(next, size) => IsValid(next', size)
        /\ isClosed => curr' = curr /\ next' = next /\ isClosed'
        /\ SwitchProducer => curr' = next /\ next' = Incr(next, size)
        /\ Produce => \A b \in BufferIds :
                        content'[b] # content[b] => b = Deref(ring, next)]_vars

\* the producer went once around a ring of three, wrote into the slot its last
\* Switch returned and released its handle
C33_Witness ==
  /\ size = 3 /\ count = 4 /\ wrote /\ isClosed
  /\ curr = 0 /\ next = 1 /\ content[Deref(ring, next)] = 4


\* C34: in every reachable state a consumer whose record holds a promise has
\* isEmpty set, so the assertion in the notification loop of SwitchProducer holds
\* in every call the producer can make
C34_PendingIsEmpty ==
  /\ \A i \in 1..Len(consumers) : consumers[i].promise => consumers[i].isEmpty
  /\ m_producer = "issued"
       => NotifyAssert(SaveBuffers(consumers, ring, Incr(next, size), 1).cs)

\* the producer has wrapped around; one consumer that was served before waits again
\* at a valid pos, next to it a consumer that has values to drain
C34_Witness ==
  /\ m_producer = "issued" /\ count >= 3 /\ wrote
  /\ \E i, j \in 1..Len(consumers) :
       /\ consumers[i].promise /\ consumers[i].isEmpty /\ IsValid(consumers[i].pos, size)
       /\ last[consumers[i].parent] # None
       /\ ~consumers[j].isEmpty /\ ~consumers[j].promise


\* C35: after CloseProducer the number of finalized values does not change, and
\* every request that is resolved with a Buffer is resolved with a finalized
\* value, never with the Buffer returned by the producer's last Switch, whose
\* value no Switch has finalized
C35_LastWriteNotDelivered ==
  [][/\ isClosed => FinalizedOf(count') = Finalized
     /\ \A p \in Parents :
          (isClosed /\ ResolvedNow(p))
          => /\ future'[p].ref # ProducerBuffer
             /\ last'[p] >= 1 /\ last'[p] <= Finalized]_vars


\* a consumer that is where its constructor put it, on a closed core
ClosedAtStart(p) ==
  /\ isClosed /\ handle[p] = "alive"
  /\ ~IsValid(Rec(p).pos, size) /\ Rec(p).isEmpty

\* C36: a consumer registered after CloseProducer starts with isEmpty set (pos
\* invalid, no promise); its record never changes while it is registered; every
\* request it issues returns a broken result at once; and it has no result and no
\* value at any time, whatever the ring holds
C36_LateConsumerBroken ==
  /\ [](\A p \in Parents :
          ClosedAtStart(p)
          => /\ last[p] = None
             /\ future[p].st \in {"none", "broken"}
             /\ ~Rec(p).promise)
  /\ [][\A p \in Parents :
          /\ (isClosed /\ handle[p] = "unborn" /\ handle'[p] = "alive")
               => /\ ClosedAtStart(p)'
                  /\ future'[p] = NoFuture
          /\ (ClosedAtStart(p) /\ handle'[p] = "alive")
               => /\ ClosedAtStart(p)'
                  /\ consumers'[Find(consumers', p)] = Rec(p)
          /\ \A s \in BOOLEAN :
               (ClosedAtStart(p) /\ SwitchConsumer(p, s))
                 => future'[p] = [st |-> "broken", ref |-> NoBuffer]]_vars

\* the producer finalized two values and released its handle; one consumer has
\* drained a value, another one is where its constructor put it and its request
\* was answered with a broken result
C36_Witness ==
  /\ Finalized >= 2
  /\ \E p, q \in Parents :
       /\ ClosedAtStart(p) /\ future[p].st = "broken"
       /\ handle[q] = "alive" /\ last[q] # None /\ Find(consumers, q) < Find(consumers, p)


\* C37: the invalid cursor is the value size, outside 0..size-1; incrementing a
\* cursor at pos gives (pos + 1) mod size, a valid index, and 1 for the invalid
\* cursor; so the slot the producer's first Switch returns is slot 1, and the
\* first slot a consumer with an invalid pos reads by a request that advances its
\* pos is slot 1
C37_CursorArithmetic ==
  /\ [](/\ RingIterator(size) = size
        /\ RingIterator(size) \notin 0..(size - 1)
        /\ ~IsValid(RingIterator(size), size)
        /\ \A pos \in 0..size :
             /\ Incr(pos, size) = (pos + 1) % size
             /\ IsValid(Incr(pos, size), size)
        /\ Incr(RingIterator(size), size) = 1
        /\ \A pos \in 0..(size - 1) : IsValid(pos, size)
        /\ count = 1 => next = 1 /\ curr = RingIterator(size)
        /\ curr \in 0..size /\ next \in 0..size
        /\ \A i \in 1..Len(consumers) : consumers[i].pos \in 0..size)
  /\ [][/\ (count = 0 /\ SwitchProducer) => next' = 1 /\ ProducerBuffer' = Deref(ring', 1)
        /\ \A p \in Parents :
             (/\ handle[p] = "alive" /\ Rec(p).pos = RingIterator(size)
              /\ ImmediateNoSkip(p))
             => /\ consumers'[Find(consumers', p)].pos = 1
                /\ future'[p].ref = Deref(ring, 1)]_vars

\* on a ring of three the producer has finalized its first value, written into
\* slot 1; slot 0 was never written; a consumer's first request, issued with an
\* invalid pos, was resolved with slot 1
C37_Witness ==
  /\ size = 3 /\ count = 2 /\ curr = 1
  /\ content[Deref(ring, 1)] = 1 /\ content[Deref(ring, 0)] = 0
  /\ \E p \in Parents :
       /\ handle[p] = "alive" /\ future[p].st = "ready"
       /\ Rec(p).pos = 1 /\ ~Rec(p).isFull /\ last[p] = 1
       /\ future[p].ref = Deref(ring, 1)

====
